---- MODULE Spec2Model ----
(***************************************************************************)
(* The KV interface of the consul client (src/kv.rs): the typed entry      *)
(* KVPair<T>, the wire record KVResult, the decode adapter                 *)
(* From<KVResult> for KVPair<T>, and the five operations get, put, delete, *)
(* acquire and release of `impl KV for Client`.                            *)
(*                                                                         *)
(* The payload type T is String.  Text is a sequence of Unicode code       *)
(* points below 0x800, bytes are numbers 0..255, and a base64 text is a    *)
(* sequence of symbols: 0..63 are the sextets of the standard alphabet,    *)
(* 64 is the pad character '=' and anything above is a character outside  *)
(* the alphabet.  Option<X> is a sequence of length 0 (None) or 1 (Some).  *)
(***************************************************************************)
EXTENDS Integers, Sequences, FiniteSets, TLC

VARIABLES
    store,      \* the remote store: key -> Option<stored entry>
    last,       \* the most recent call of the client: its inputs, what it found,
                \* its requests, their responses and what it returned
    crashed,    \* the calling thread has panicked
    lastPut,    \* history: key -> Option<T>, the value of the latest put that
                \* returned true with no later write to the key
    holders,    \* history: key -> sessions whose acquire returned true and
                \* whose release has not returned true since
    scenario    \* history: the booleans returned along the lock scenario

vars == <<store, last, crashed, lastPut, holders, scenario>>

----------------------------------------------------------------------------
(* Option and Result *)

None == <<>>
Some(x) == <<x>>

Ok(v) == [ok |-> TRUE, val |-> v]
Fail == [ok |-> FALSE, val |-> <<>>]

----------------------------------------------------------------------------
(* Bounds and input domains *)

\* the longest response body (number of wire records) the transport returns
MaxRecords == 2

Keys == {"cfg", "lock/a"}
Sessions == {"S1", "S2"}
FlagsDomain == {0, 5, 12}

\* values of T = String: "x", and a quote (escaped in JSON) followed by an
\* e-acute (two bytes in UTF-8)
Values == {<<120>>, <<34, 233>>}

\* a body another client of the store wrote: the text hi, which is no JSON
ForeignBodies == {<<104, 105>>}

----------------------------------------------------------------------------
(* u64::to_string, str::from_utf8, serde_json and base64 *)

Digit(d) == <<"0", "1", "2", "3", "4", "5", "6", "7", "8", "9">>[d + 1]

RECURSIVE to_string(_)
to_string(i) ==
    IF i < 10 THEN <<Digit(i)>> ELSE to_string(i \div 10) \o <<Digit(i % 10)>>

\* String::as_bytes: the UTF-8 encoding of a text
RECURSIVE as_bytes(_)
as_bytes(s) ==
    IF s = <<>> THEN <<>>
    ELSE LET c == Head(s)
             b == IF c < 128 THEN <<c>> ELSE <<192 + (c \div 64), 128 + (c % 64)>>
         IN b \o as_bytes(Tail(s))

\* std::str::from_utf8 on bytes below 0xE0 or above 0xF4 (one- and two-byte
\* sequences; a lone continuation byte, an overlong lead 0xC0/0xC1, a
\* truncated sequence and the bytes 0xF5..0xFF are errors)
RECURSIVE from_utf8(_)
from_utf8(b) ==
    IF b = <<>> THEN Ok(<<>>)
    ELSE IF b[1] < 128
    THEN LET r == from_utf8(Tail(b))
         IN IF r.ok THEN Ok(<<b[1]>> \o r.val) ELSE Fail
    ELSE IF b[1] \in 194..223 /\ Len(b) >= 2 /\ b[2] \in 128..191
    THEN LET r == from_utf8(SubSeq(b, 3, Len(b)))
         IN IF r.ok THEN Ok(<<(b[1] - 192) * 64 + (b[2] - 128)>> \o r.val) ELSE Fail
    ELSE Fail

\* serde_json::to_string of a String: quoted, with '"' and '\' escaped
\* (control characters are outside the modelled texts)
RECURSIVE EscapeJson(_)
EscapeJson(s) ==
    IF s = <<>> THEN <<>>
    ELSE LET c == Head(s)
         IN (IF c \in {34, 92} THEN <<92, c>> ELSE <<c>>) \o EscapeJson(Tail(s))

to_json(v) == <<34>> \o EscapeJson(v) \o <<34>>

JsonWhitespace == {32, 9, 10, 13}

\* the body of a JSON string from position i on, up to the closing quote;
\* after it only whitespace may follow
RECURSIVE ParseJsonStr(_, _)
ParseJsonStr(s, i) ==
    IF i > Len(s) THEN Fail                                  \* EofWhileParsingString
    ELSE IF s[i] = 34
    THEN IF \A j \in (i + 1)..Len(s) : s[j] \in JsonWhitespace
         THEN Ok(<<>>) ELSE Fail                             \* TrailingCharacters
    ELSE IF s[i] = 92
    THEN IF i + 1 <= Len(s) /\ s[i + 1] \in {34, 92, 47}
         THEN LET r == ParseJsonStr(s, i + 2)
              IN IF r.ok THEN Ok(<<s[i + 1]>> \o r.val) ELSE Fail
         ELSE Fail                                           \* InvalidEscape / Eof
    ELSE IF s[i] < 32 THEN Fail                              \* ControlCharacter
    ELSE LET r == ParseJsonStr(s, i + 1)
         IN IF r.ok THEN Ok(<<s[i]>> \o r.val) ELSE Fail

RECURSIVE SkipWhitespace(_, _)
SkipWhitespace(s, i) ==
    IF i <= Len(s) /\ s[i] \in JsonWhitespace THEN SkipWhitespace(s, i + 1) ELSE i

\* serde_json::from_str::<String>: the empty input and any text that is not
\* one JSON string are errors
from_str(s) ==
    LET i == SkipWhitespace(s, 1)
    IN IF i > Len(s) THEN Fail                               \* EofWhileParsingValue
       ELSE IF s[i] # 34 THEN Fail                           \* invalid type / syntax
       ELSE ParseJsonStr(s, i + 1)

\* base64 of a byte string, standard alphabet, padded (what the store puts
\* in the Value of a wire record)
RECURSIVE base64_encode(_)
base64_encode(b) ==
    IF Len(b) = 0 THEN <<>>
    ELSE IF Len(b) = 1
    THEN <<b[1] \div 4, (b[1] % 4) * 16, 64, 64>>
    ELSE IF Len(b) = 2
    THEN <<b[1] \div 4, (b[1] % 4) * 16 + (b[2] \div 16), (b[2] % 16) * 4, 64>>
    ELSE <<b[1] \div 4, (b[1] % 4) * 16 + (b[2] \div 16),
           (b[2] % 16) * 4 + (b[3] \div 64), b[3] % 64>>
         \o base64_encode(SubSeq(b, 4, Len(b)))

\* the bytes of a text of sextets whose length is not 1 modulo 4
RECURSIVE DecodeSextets(_)
DecodeSextets(s) ==
    IF Len(s) = 0 THEN <<>>
    ELSE IF Len(s) = 2 THEN <<s[1] * 4 + (s[2] \div 16)>>
    ELSE IF Len(s) = 3
    THEN <<s[1] * 4 + (s[2] \div 16), (s[2] % 16) * 16 + (s[3] \div 4)>>
    ELSE <<s[1] * 4 + (s[2] \div 16), (s[2] % 16) * 16 + (s[3] \div 4),
           (s[3] % 4) * 64 + s[4]>>
         \o DecodeSextets(SubSeq(s, 5, Len(s)))

\* base64::decode: up to two trailing pads are dropped; a character outside
\* the alphabet (a pad elsewhere included), a length of 1 modulo 4 and
\* non-zero bits after the last byte are errors.  (Whether a text with its
\* padding missing is accepted depends on the version of the crate; no input
\* of this model has its padding missing.)
base64_decode(s) ==
    LET n == Len(s)
        pads == IF n >= 2 /\ s[n] = 64 /\ s[n - 1] = 64 THEN 2
                ELSE IF n >= 1 /\ s[n] = 64 THEN 1 ELSE 0
        body == SubSeq(s, 1, n - pads)
        m == Len(body)
    IN IF \E i \in 1..m : body[i] > 63 THEN Fail             \* InvalidByte
       ELSE IF m % 4 = 1 THEN Fail                           \* InvalidLength
       ELSE IF m % 4 = 2 /\ body[m] % 16 # 0 THEN Fail       \* InvalidLastSymbol
       ELSE IF m % 4 = 3 /\ body[m] % 4 # 0 THEN Fail        \* InvalidLastSymbol
       ELSE Ok(DecodeSextets(body))

----------------------------------------------------------------------------
(* The entity model *)

\* struct KVResult: the wire record
KVResult(key, create, modify, lock, flags, value, session) ==
    [Key |-> key, CreateIndex |-> create, ModifyIndex |-> modify,
     LockIndex |-> lock, Flags |-> flags, Value |-> value, Session |-> session]

\* struct KVPair<T>: the typed entry
KVPair(key, create, modify, lock, flags, value, session) ==
    [Key |-> key, CreateIndex |-> create, ModifyIndex |-> modify,
     LockIndex |-> lock, Flags |-> flags, Value |-> value, Session |-> session]

\* the entries a caller builds for put, acquire and release
Pairs ==
    {KVPair(k, None, None, None, f, v, s) :
        k \in Keys, f \in {None} \cup {Some(i) : i \in FlagsDomain},
        v \in Values, s \in {None} \cup {Some(x) : x \in Sessions}}

\* the conversion without the JSON step: the decoded text is the value
from_text(result) ==
    LET bytes == base64_decode(result.Value)
        decoded == from_utf8(bytes.val)
    IN IF ~bytes.ok \/ ~decoded.ok
       THEN [panic |-> TRUE, pair |-> None]
       ELSE [panic |-> FALSE,
             pair |-> Some(KVPair(result.Key, result.CreateIndex, result.ModifyIndex,
                                  result.LockIndex, result.Flags, decoded.val,
                                  result.Session))]

\* impl From<KVResult> for KVPair<T>: each unwrap panics on an Err
from(result) ==
    LET bytes == base64_decode(result.Value)
        decoded == from_utf8(bytes.val)
        value == from_str(decoded.val)
    IN IF ~bytes.ok \/ ~decoded.ok \/ ~value.ok
       THEN [panic |-> TRUE, pair |-> None]
       ELSE [panic |-> FALSE,
             pair |-> Some(KVPair(result.Key, result.CreateIndex, result.ModifyIndex,
                                  result.LockIndex, result.Flags, value.val,
                                  result.Session))]

----------------------------------------------------------------------------
(* Requests, responses and returned values *)

\* HashMap<String, String>
EmptyMap == <<>>
insert(map, k, v) == (k :> v) @@ map
contains_key(map, k) == k \in DOMAIN map

\* format!("/v1/kv/{}", key)
format(key) == <<"/v1/kv/", key>>

\* the request layer (crate::request): one HTTP request per call; put sends
\* the JSON serialization of the body
request_get(path, params) ==
    [method |-> "GET", path |-> path, params |-> params, body |-> None]
request_delete(path, params) ==
    [method |-> "DELETE", path |-> path, params |-> params, body |-> None]
request_put(path, body, params) ==
    [method |-> "PUT", path |-> path, params |-> params,
     body |-> Some(as_bytes(to_json(body)))]

\* what the request layer hands back: Result<(bool, WriteMeta)> or
\* Result<(Vec<KVResult>, QueryMeta)>
Response(ok, bool, records, meta, err) ==
    [ok |-> ok, bool |-> bool, records |-> records, meta |-> meta, err |-> err]
TransportError == Response(FALSE, FALSE, <<>>, "", "HTTP request to consul failed")

\* what a call does: "Ok" (value, metadata), "Err" (error) or "Panic"
Return(kind, bool, entry, meta, err) ==
    [kind |-> kind, bool |-> bool, entry |-> entry, meta |-> meta, err |-> err]
OkBool(response) == Return("Ok", response.bool, None, response.meta, "")
OkEntry(entry, meta) == Return("Ok", FALSE, entry, meta, "")
Err(msg) == Return("Err", FALSE, None, "", msg)
Panic == Return("Panic", FALSE, None, "", "")

\* `?`-free propagation: the Result of the request layer is the call's Result
Relay(response) == IF response.ok THEN OkBool(response) ELSE Err(response.err)

----------------------------------------------------------------------------
(* impl KV for Client.  A call is two definitions: the requests it hands   *)
(* to the request layer, in order, and what it returns given the responses *)
(* to them.                                                                *)

\* acquire: the `flags` parameter
acquire_params(pair) ==
    IF pair.Flags # None /\ pair.Flags[1] # 0
    THEN insert(EmptyMap, "flags", to_string(pair.Flags[1]))
    ELSE EmptyMap

\* acquire that checks the session only after the request went out
acquire_requests_unchecked(pair) ==
    <<request_put(format(pair.Key), pair.Value,
                  IF pair.Session # None
                  THEN insert(acquire_params(pair), "acquire", pair.Session[1])
                  ELSE acquire_params(pair))>>

acquire_requests(pair) ==
    IF pair.Session # None
    THEN <<request_put(format(pair.Key), pair.Value,
                       insert(acquire_params(pair), "acquire", pair.Session[1]))>>
    ELSE <<>>

\* acquire that turns a refusal of the store into an error
acquire_return_strict(pair, responses) ==
    IF pair.Session = None THEN Err("Session flag is required to acquire lock")
    ELSE IF responses[1].ok /\ ~responses[1].bool THEN Err("lock is held")
    ELSE Relay(responses[1])

acquire_return(pair, responses) ==
    IF pair.Session # None
    THEN Relay(responses[1])
    ELSE Err("Session flag is required to acquire lock")

\* delete that calls the request layer's get
delete_requests_get(key) == <<request_get(format(key), EmptyMap)>>

delete_requests(key) == <<request_delete(format(key), EmptyMap)>>

delete_return(key, responses) == Relay(responses[1])

get_requests(key) == <<request_get(format(key), EmptyMap)>>

\* results.last()
last_record(results) == IF results = <<>> THEN None ELSE Some(results[Len(results)])

\* results.first()
first(results) == IF results = <<>> THEN None ELSE Some(results[1])

\* get that reports a response of no record as an error
get_return_not_found(key, responses) ==
    LET response == responses[1]
        maybe_first == first(response.records)
    IN IF ~response.ok THEN Err(response.err)
       ELSE IF maybe_first = None THEN Err("key not found")
       ELSE LET kv_pair == from(maybe_first[1])
            IN IF kv_pair.panic THEN Panic ELSE OkEntry(kv_pair.pair, response.meta)

\* response.map(|(results, meta)| ...): an Err passes through, the first
\* record, if any, is cloned and converted
get_return(key, responses) ==
    LET response == responses[1]
        maybe_first == first(response.records)
    IN IF ~response.ok THEN Err(response.err)
       ELSE IF maybe_first = None THEN OkEntry(None, response.meta)
       ELSE LET kv_pair == from(maybe_first[1])
            IN IF kv_pair.panic THEN Panic ELSE OkEntry(kv_pair.pair, response.meta)

\* put without the test `i != 0`
put_params_always(pair) ==
    IF pair.Flags # None
    THEN insert(EmptyMap, "flags", to_string(pair.Flags[1]))
    ELSE EmptyMap

\* put: the `flags` parameter
put_params(pair) ==
    IF pair.Flags # None /\ pair.Flags[1] # 0
    THEN insert(EmptyMap, "flags", to_string(pair.Flags[1]))
    ELSE EmptyMap

\* put that sends its request a second time
put_requests_twice(pair) ==
    <<request_put(format(pair.Key), pair.Value, put_params(pair)),
      request_put(format(pair.Key), pair.Value, put_params(pair))>>

put_requests(pair) == <<request_put(format(pair.Key), pair.Value, put_params(pair))>>

put_return(pair, responses) == Relay(responses[1])

\* release: the `flags` parameter
release_params(pair) ==
    IF pair.Flags # None /\ pair.Flags[1] # 0
    THEN insert(EmptyMap, "flags", to_string(pair.Flags[1]))
    ELSE EmptyMap

\* release with the parameter of acquire
release_requests_acquire(pair) ==
    IF pair.Session # None
    THEN <<request_put(format(pair.Key), pair.Value,
                       insert(release_params(pair), "acquire", pair.Session[1]))>>
    ELSE <<>>

release_requests(pair) ==
    IF pair.Session # None
    THEN <<request_put(format(pair.Key), pair.Value,
                       insert(release_params(pair), "release", pair.Session[1]))>>
    ELSE <<>>

release_return(pair, responses) ==
    IF pair.Session # None
    THEN Relay(responses[1])
    ELSE Err("Session flag is required to release a lock")

----------------------------------------------------------------------------
(* The store behind the request layer (external): a key holds a body, its  *)
(* flags and the session that holds its lock, if any.                      *)

Entry(body, flags, session) == [body |-> body, flags |-> flags, session |-> session]

\* the number a decimal text denotes
RECURSIVE ParseDecimal(_)
ParseDecimal(t) ==
    IF t = <<>> THEN 0
    ELSE ParseDecimal(SubSeq(t, 1, Len(t) - 1)) * 10
         + (CHOOSE d \in 0..9 : Digit(d) = t[Len(t)])

\* the wire record of a stored entry: the body base64-encoded (the store's
\* counters CreateIndex, ModifyIndex and LockIndex are not modelled: the
\* record leaves them out, as Option and #[serde(default)] allow)
WireRecord(key, e) ==
    KVResult(key, None, None, None, Some(e.flags), base64_encode(e.body), e.session)

StoreHandle(st, req) ==
    LET key == req.path[2]
        cur == st[key]
        held == IF cur = None THEN None ELSE cur[1].session
        flags == IF contains_key(req.params, "flags")
                 THEN ParseDecimal(req.params["flags"]) ELSE 0
        write(session) == [st EXCEPT ![key] = Some(Entry(req.body[1], flags, session))]
        answer(b) == Response(TRUE, b, <<>>, "WriteMeta", "")
    IN IF req.method = "GET"
       THEN [store |-> st,
             response |-> Response(TRUE, FALSE,
                                   IF cur = None THEN <<>> ELSE <<WireRecord(key, cur[1])>>,
                                   "QueryMeta", "")]
       ELSE IF req.method = "DELETE"
       THEN [store |-> [st EXCEPT ![key] = None], response |-> answer(TRUE)]
       ELSE IF contains_key(req.params, "acquire")
       THEN LET s == req.params["acquire"]
            IN IF held = None \/ held = Some(s)
               THEN [store |-> write(Some(s)), response |-> answer(TRUE)]
               ELSE [store |-> st, response |-> answer(FALSE)]
       ELSE IF contains_key(req.params, "release")
       THEN LET s == req.params["release"]
            IN IF held = Some(s)
               THEN [store |-> write(None), response |-> answer(TRUE)]
               ELSE [store |-> st, response |-> answer(FALSE)]
       ELSE [store |-> write(held), response |-> answer(TRUE)]

\* what the transport does with a request: it delivers it to the store, it
\* fails, or (a get) it answers with records of its own
Deliver == [kind |-> "deliver", records |-> <<>>]
Broken == [kind |-> "fail", records |-> <<>>]
Reply(records) == [kind |-> "reply", records |-> records]

RECURSIVE Exchange(_, _, _)
Exchange(st, sent, net) ==
    IF sent = <<>> THEN [store |-> st, responses |-> <<>>]
    ELSE LET h == IF net.kind = "deliver" THEN StoreHandle(st, Head(sent))
                  ELSE IF net.kind = "fail" THEN [store |-> st, response |-> TransportError]
                  ELSE [store |-> st,
                        response |-> Response(TRUE, FALSE, net.records, "QueryMeta", "")]
             rest == Exchange(h.store, Tail(sent), net)
         IN [store |-> rest.store, responses |-> <<h.response>> \o rest.responses]

\* wire records a response may hold beside the store's own: a well-formed
\* one, and one each with a character outside base64, bytes that are no
\* UTF-8, and an empty Value
RecordPool(key) ==
    {KVResult(key, Some(1), Some(2), Some(1), Some(5),
              base64_encode(as_bytes(to_json(<<120>>))), Some("S1")),
     KVResult(key, Some(1), Some(1), Some(0), Some(0), <<8, 65, 8, 8>>, None),
     KVResult(key, Some(1), Some(1), Some(0), Some(0), base64_encode(<<255>>), None),
     KVResult(key, Some(1), Some(1), Some(0), Some(0), <<>>, None)}

RECURSIVE SeqsUpTo(_, _)
SeqsUpTo(S, n) ==
    IF n = 0 THEN {<<>>}
    ELSE LET shorter == SeqsUpTo(S, n - 1)
         IN shorter \cup {Append(q, x) : q \in shorter, x \in S}

Replies(key) == {Reply(rs) : rs \in SeqsUpTo(RecordPool(key), MaxRecords) \ {<<>>}}

----------------------------------------------------------------------------
(* The state machine *)

ScenarioKey == "lock/a"
ScenarioSteps ==
    <<[op |-> "acquire", session |-> "S1"], [op |-> "acquire", session |-> "S2"],
      [op |-> "release", session |-> "S1"], [op |-> "acquire", session |-> "S2"]>>

\* what a call finds at its key: whether it holds a value, and its lock
Before(st, key) ==
    [exists |-> st[key] # None,
     session |-> IF st[key] = None THEN None ELSE st[key][1].session]

NoCall ==
    [op |-> "none", key |-> "", pair |-> None, net |-> Deliver,
     before |-> [exists |-> FALSE, session |-> None],
     sent |-> <<>>, responses |-> <<>>, ret |-> Return("None", FALSE, None, "", "")]

Init ==
    /\ store = [k \in Keys |-> None]
    /\ last = NoCall
    /\ crashed = FALSE
    /\ lastPut = [k \in Keys |-> None]
    /\ holders = [k \in Keys |-> {}]
    /\ scenario = <<>>

Unlocked(st, key) == st[key] = None \/ st[key][1].session = None

\* the lock scenario as the calls go by: a call that is its next step adds
\* the boolean it returned, any other write call on the key starts it over
NextScenario(op, key, pair, ret) ==
    LET n == Len(scenario)
        step(i) == /\ pair # None /\ pair[1].Session # None
                   /\ ScenarioSteps[i] = [op |-> op, session |-> pair[1].Session[1]]
                   /\ ret.kind = "Ok"
    IN IF key # ScenarioKey \/ op = "get" THEN scenario
       ELSE IF n \in 1..3 /\ step(n + 1) THEN Append(scenario, ret.bool)
       ELSE IF step(1) /\ Unlocked(store, key) THEN <<ret.bool>>
       ELSE <<>>

\* the end of a call: the store after its requests, the call's record and
\* the history variables
Finish(op, key, pair, net, sent, ex, ret) ==
    LET true == ret.kind = "Ok" /\ ret.bool
    IN /\ store' = ex.store
       /\ last' = [op |-> op, key |-> key, pair |-> pair, net |-> net,
                   before |-> Before(store, key), sent |-> sent,
                   responses |-> ex.responses, ret |-> ret]
       /\ crashed' = (ret.kind = "Panic")
       /\ lastPut' = [k \in Keys |->
                        IF k = key /\ op = "put" /\ true THEN Some(pair[1].Value)
                        ELSE IF ex.store[k] # store[k] THEN None
                        ELSE lastPut[k]]
       /\ holders' = [k \in Keys |->
                        IF k # key THEN holders[k]
                        ELSE IF op = "acquire" /\ true /\ pair[1].Session # None
                        THEN holders[k] \cup {pair[1].Session[1]}
                        ELSE IF op = "release" /\ true /\ pair[1].Session # None
                        THEN holders[k] \ {pair[1].Session[1]}
                        ELSE IF op = "delete" /\ true THEN {}
                        ELSE holders[k]]
       /\ scenario' = NextScenario(op, key, pair, ret)

\* The calls.  net is what the transport does with the call's request; a
\* thread that has panicked makes no further call.
acquire(pair, net) ==
    /\ ~crashed
    /\ LET sent == acquire_requests(pair)
           ex == Exchange(store, sent, net)
       IN Finish("acquire", pair.Key, Some(pair), net, sent, ex,
                 acquire_return(pair, ex.responses))

delete(key, net) ==
    /\ ~crashed
    /\ LET sent == delete_requests(key)
           ex == Exchange(store, sent, net)
       IN Finish("delete", key, None, net, sent, ex, delete_return(key, ex.responses))

get(key, net) ==
    /\ ~crashed
    /\ LET sent == get_requests(key)
           ex == Exchange(store, sent, net)
       IN Finish("get", key, None, net, sent, ex, get_return(key, ex.responses))

put(pair, net) ==
    /\ ~crashed
    /\ LET sent == put_requests(pair)
           ex == Exchange(store, sent, net)
       IN Finish("put", pair.Key, Some(pair), net, sent, ex,
                 put_return(pair, ex.responses))

release(pair, net) ==
    /\ ~crashed
    /\ LET sent == release_requests(pair)
           ex == Exchange(store, sent, net)
       IN Finish("release", pair.Key, Some(pair), net, sent, ex,
                 release_return(pair, ex.responses))

\* another client of the store writes a body that is no JSON to a key; the
\* lock on the key stays as it is
ForeignPut(key, body) ==
    /\ store' = [store EXCEPT ![key] =
                    Some(Entry(body, 0, IF store[key] = None THEN None
                                        ELSE store[key][1].session))]
    /\ store' # store
    /\ lastPut' = [lastPut EXCEPT ![key] = None]
    /\ scenario' = IF key = ScenarioKey THEN <<>> ELSE scenario
    /\ UNCHANGED <<last, crashed, holders>>

Network == {Deliver, Broken}

\* The entries of the calls.  Entries without a session take every key,
\* flags and value; entries that take a lock carry the value "x" and no
\* flags; the entries of SpecData carry no session and every value; the
\* entries of SpecFlags are for one key and take every flags.
NoSessionPairs == {p \in Pairs : p.Session = None}
LockPairs == {p \in Pairs : p.Session # None /\ p.Value = <<120>> /\ p.Flags = None}
PlainPairs == {p \in NoSessionPairs : p.Value = <<120>> /\ p.Flags = None}
DataPairs == {p \in NoSessionPairs : p.Flags \in {None, Some(5)}}
FlagsPairs == {p \in Pairs : p.Key = "cfg" /\ p.Value = <<120>>}

\* every operation, on every key
Next ==
    \/ \E pair \in LockPairs \cup NoSessionPairs, net \in Network : acquire(pair, net)
    \/ \E key \in Keys, net \in Network : delete(key, net)
    \/ \E key \in Keys, net \in Network : get(key, net)
    \/ \E pair \in PlainPairs, net \in Network : put(pair, net)
    \/ \E pair \in LockPairs \cup NoSessionPairs, net \in Network : release(pair, net)

Spec == Init /\ [][Next]_vars

\* reads and writes of values, beside another client's writes and responses
\* of more than one record
NextData ==
    \/ \E key \in Keys, net \in Network : delete(key, net)
    \/ \E key \in Keys : \E net \in Network \cup Replies(key) : get(key, net)
    \/ \E pair \in DataPairs, net \in Network : put(pair, net)
    \/ \E key \in Keys, body \in ForeignBodies : ForeignPut(key, body)

SpecData == Init /\ [][NextData]_vars

\* the three calls that build query parameters, with every flags
NextFlags ==
    \/ \E pair \in FlagsPairs, net \in Network : acquire(pair, net)
    \/ \E pair \in FlagsPairs, net \in Network : put(pair, net)
    \/ \E pair \in FlagsPairs, net \in Network : release(pair, net)

SpecFlags == Init /\ [][NextFlags]_vars

----------------------------------------------------------------------------
(* Properties *)

\* the steps of the state machine that are a call of one operation, with
\* the inputs the call's record names
AcquireStep == last'.op = "acquire" /\ acquire(last'.pair[1], last'.net)
ReleaseStep == last'.op = "release" /\ release(last'.pair[1], last'.net)
DeleteStep == last'.op = "delete" /\ delete(last'.key, last'.net)
GetStep == last'.op = "get" /\ get(last'.key, last'.net)

WriteOps == {"put", "delete", "acquire", "release"}
LockOps == {"acquire", "release"}
PreconditionErrors ==
    {"Session flag is required to acquire lock",
     "Session flag is required to release a lock"}

\* the call of the record is one whose local precondition holds
PreconditionHolds(c) == c.op \in LockOps => c.pair[1].Session # None

\* a wire record whose Value is no base64, no UTF-8 or no JSON of a T
Malformed(r) ==
    LET bytes == base64_decode(r.Value)
        text == from_utf8(bytes.val)
    IN ~bytes.ok \/ ~text.ok \/ ~from_str(text.val).ok

\* C1: an acquire or a release of an entry with no Session returns the
\* precondition error, hands no request to the request layer and leaves the
\* store (every key's value and lock) as it was, with any Key, Value and Flags
\* of the entry and in any state of the store.
C1_NoSessionNoRequest ==
    [][(AcquireStep \/ ReleaseStep) /\ last'.pair[1].Session = None
         => /\ last'.ret.kind = "Err"
            /\ last'.ret.err \in PreconditionErrors
            /\ last'.sent = <<>>
            /\ store' = store]_vars

\* a release with no session has been refused while its key was locked
C1_Witness ==
    /\ last.op = "release"
    /\ last.pair[1].Session = None
    /\ last.pair[1].Flags = Some(5)
    /\ last.ret.kind = "Err"
    /\ last.before.session = Some("S1")

\* C2: a request of put, acquire or release has the parameter `flags` exactly
\* when the entry's Flags is present and not zero, and its value is then the
\* decimal text of Flags (5 gives "5"), with no leading zero.
C2_FlagsParameter ==
    last.op \in {"put", "acquire", "release"} =>
        \A i \in 1..Len(last.sent) :
            LET params == last.sent[i].params
                Flags == last.pair[1].Flags
            IN /\ contains_key(params, "flags") <=> (Flags # None /\ Flags[1] # 0)
               /\ contains_key(params, "flags") =>
                    /\ ParseDecimal(params["flags"]) = Flags[1]
                    /\ params["flags"][1] # "0"
                    /\ Flags[1] = 5 => params["flags"] = <<"5">>

\* an acquire with Flags 5 has sent flags=5
C2_Witness ==
    /\ last.op = "acquire"
    /\ last.pair[1].Flags = Some(5)
    /\ Len(last.sent) = 1
    /\ last.sent[1].params["flags"] = <<"5">>

\* at most one session holds the lock of a key, and it is the one the store
\* names
MutualExclusion ==
    \A k \in Keys :
        /\ Cardinality(holders[k]) <= 1
        /\ \A s \in holders[k] : store[k] # None /\ store[k][1].session = Some(s)

ScenarioResults == <<TRUE, FALSE, TRUE, TRUE>>

\* C3: at most one session holds a key's lock at a time; an acquire the store
\* answers returns true exactly when the key was unlocked or held by the same
\* session (false while another session holds it); a release that returns true
\* was the holder's and leaves the key unlocked; and along S1 acquire, S2
\* acquire, S1 release, S2 acquire on an unlocked key the calls return true,
\* false, true, true.
C3_LockProtocol ==
    [][/\ MutualExclusion'
       /\ scenario' = SubSeq(ScenarioResults, 1, Len(scenario'))
       /\ AcquireStep /\ last'.net = Deliver /\ last'.pair[1].Session # None
            => /\ last'.ret.kind = "Ok"
               /\ last'.ret.bool
                    <=> Before(store, last'.key).session
                            \in {None, last'.pair[1].Session}
       /\ ReleaseStep /\ last'.ret.kind = "Ok" /\ last'.ret.bool
            => /\ Before(store, last'.key).session = last'.pair[1].Session
               /\ Unlocked(store', last'.key)]_vars

\* the four calls of the scenario have returned
C3_Witness ==
    /\ scenario = ScenarioResults
    /\ holders[ScenarioKey] = {"S2"}

\* C4: a get the store answers, of a key whose latest write is a put of the
\* value v that returned true, returns a present entry whose value is v, from
\* a wire Value that is the base64 of the JSON of v.
C4_RoundTrip ==
    (last.op = "get" /\ last.net = Deliver /\ lastPut[last.key] # None) =>
        /\ last.ret.kind = "Ok"
        /\ last.ret.entry # None
        /\ last.ret.entry[1].Value = lastPut[last.key][1]
        /\ last.ret.entry[1].Key = last.key
        /\ last.responses[1].records[1].Value
             = base64_encode(as_bytes(to_json(lastPut[last.key][1])))

\* the value with a quote and a two-byte character has come back
C4_Witness ==
    /\ last.op = "get"
    /\ last.net = Deliver
    /\ lastPut[last.key] = Some(<<34, 233>>)
    /\ last.ret.entry # None
    /\ last.ret.entry[1].Value = <<34, 233>>

\* C5: a get whose response holds no record returns (absent, metadata) and no
\* error; that is what a get the store answers returns for a key with no
\* stored value.
C5_AbsentIsOk ==
    last.op = "get" =>
        /\ (last.responses[1].ok /\ last.responses[1].records = <<>>)
             => last.ret = OkEntry(None, last.responses[1].meta)
        /\ (last.net = Deliver /\ ~last.before.exists)
             => last.ret = OkEntry(None, "QueryMeta")

\* a get of a key with no value has returned absent while the other key holds
\* a value
C5_Witness ==
    /\ last.op = "get"
    /\ last.net = Deliver
    /\ ~last.before.exists
    /\ last.ret.kind = "Ok"
    /\ last.ret.entry = None
    /\ \E k \in Keys : store[k] # None

\* C6: every get returns (entry or absent, metadata) or an error; when the
\* first record of the response is malformed it returns an error.
C6_DecodeErrorReturned ==
    last.op = "get" =>
        /\ last.ret.kind \in {"Ok", "Err"}
        /\ (last.responses[1].ok /\ last.responses[1].records # <<>>
              /\ Malformed(last.responses[1].records[1]))
             => last.ret.kind = "Err"

\* C7: a delete the store answers returns true whether or not the key holds a
\* value, leaves the key without a value and the other keys as they were, and
\* changes nothing when the key held no value; a get the store answers then
\* returns absent.
C7_DeleteIdempotent ==
    [][/\ DeleteStep /\ last'.net = Deliver
            => /\ last'.ret = Return("Ok", TRUE, None, "WriteMeta", "")
               /\ store'[last'.key] = None
               /\ \A k \in Keys \ {last'.key} : store'[k] = store[k]
               /\ store[last'.key] = None => store' = store
       /\ GetStep /\ last'.net = Deliver /\ store[last'.key] = None
            => last'.ret.kind = "Ok" /\ last'.ret.entry = None]_vars

\* a delete of a key with no value has returned true
C7_Witness ==
    /\ last.op = "delete"
    /\ ~last.before.exists
    /\ last.ret.kind = "Ok"
    /\ last.ret.bool
    /\ store[last.key] = None

\* C8: a put, delete, acquire or release whose request the store answers with
\* the boolean b returns (b, metadata); it returns an error only when its
\* local precondition failed or the request layer returned an error.
C8_BooleanRelayed ==
    last.op \in WriteOps =>
        /\ (last.sent # <<>> /\ last.responses[1].ok)
             => last.ret = Return("Ok", last.responses[1].bool, None,
                                  last.responses[1].meta, "")
        /\ last.ret.kind \in {"Ok", "Err"}
        /\ last.ret.kind = "Err"
             => \/ ~PreconditionHolds(last)
                \/ (last.sent # <<>> /\ ~last.responses[1].ok)

\* an acquire of a key another session holds has returned (false, metadata)
C8_Witness ==
    /\ last.op = "acquire"
    /\ last.before.session = Some("S1")
    /\ last.pair[1].Session = Some("S2")
    /\ last.ret.kind = "Ok"
    /\ ~last.ret.bool

\* C9: a get whose response holds more than one record, the first of them
\* well-formed, returns the entry of the first record: its Key, indices, Flags
\* and Session, and the value its Value encodes, whatever the later records.
C9_FirstRecordOnly ==
    (last.op = "get" /\ last.responses[1].ok /\ Len(last.responses[1].records) > 1
       /\ ~Malformed(last.responses[1].records[1])) =>
        LET r == last.responses[1].records[1]
        IN /\ last.ret.kind = "Ok"
           /\ last.ret.entry # None
           /\ LET e == last.ret.entry[1]
              IN /\ e.Key = r.Key
                 /\ e.CreateIndex = r.CreateIndex
                 /\ e.ModifyIndex = r.ModifyIndex
                 /\ e.LockIndex = r.LockIndex
                 /\ e.Flags = r.Flags
                 /\ e.Session = r.Session
                 /\ base64_encode(as_bytes(to_json(e.Value))) = r.Value

\* a get has returned the first of two records, the second malformed
C9_Witness ==
    /\ last.op = "get"
    /\ last.responses[1].ok
    /\ Len(last.responses[1].records) = 2
    /\ Malformed(last.responses[1].records[2])
    /\ last.ret.kind = "Ok"
    /\ last.ret.entry # None

\* C10: a call hands at most one request to the request layer, exactly one
\* when its local precondition holds, and an error of the request layer is
\* what the call returns.
C10_SingleAttempt ==
    last.op # "none" =>
        /\ Len(last.sent) <= 1
        /\ PreconditionHolds(last) => Len(last.sent) = 1
        /\ Len(last.responses) = Len(last.sent)
        /\ (last.sent # <<>> /\ ~last.responses[1].ok)
             => last.ret = Err(last.responses[1].err)

\* an acquire whose request failed has returned the error after one request
C10_Witness ==
    /\ last.op = "acquire"
    /\ last.net = Broken
    /\ Len(last.sent) = 1
    /\ last.ret = Err(TransportError.err)

====
